---- MODULE Spec2Model ----
(***************************************************************************)
(* strict_result: StrictResult<A, B>, a transparent wrapper around         *)
(* Result<A, B> whose `?` operator does not apply the implicit `.into()`   *)
(* to the error payload (src/src/lib.rs), and the functions of             *)
(* src/examples/example.rs that propagate through it.                      *)
(*                                                                         *)
(* Two kinds of behaviour are modelled in one state machine:               *)
(*   - an enclosing function that calls helpers one after another and      *)
(*     applies `?` to each result (pc, steps, i, cur, cf, val, ret,        *)
(*     trace), after the trait resolution of its `?` operators;            *)
(*   - a chain of direct applications of the crate's functions to a value  *)
(*     (chain).                                                            *)
(***************************************************************************)
EXTENDS Integers, Sequences, FiniteSets, TLC

VARIABLES pc, retKind, retErr, steps, i, cur, cf, val, ret, trace, chain

vars == <<pc, retKind, retErr, steps, i, cur, cf, val, ret, trace, chain>>

progVars == <<pc, retKind, retErr, steps, i, cur, cf, val, ret, trace>>

\* ------------------------------------------------------------------ bounds

\* Distinct payloads of each payload type.
MaxPayload == 2

\* `?` operators in the body of the enclosing function.
MaxSteps == 2

\* Functions applied one after another to an input value.
MaxChain == 3

\* ------------------------------------------------------------------ values

\* The error types of the example; A stands for the success type parameter.
ErrTypes == {"AError", "BError", "ABError"}

\* The values of a type.  Infallible has none.  An ABError is A(a) or B(b),
\* and holds the value it was built from.
TypeVals(ty) ==
  CASE ty = "Infallible" -> {}
    [] ty = "ABError" ->
         {[ty |-> "ABError", ctor |-> c, id |-> n] : c \in {"A", "B"}, n \in 1..MaxPayload}
    [] OTHER -> {[ty |-> ty, ctor |-> ty, id |-> n] : n \in 1..MaxPayload}

\* The unit value `()`.
Unit == [ty |-> "()", ctor |-> "()", id |-> 0]

Ok(a) == [variant |-> "Ok", v |-> a]

Err(b) == [variant |-> "Err", v |-> b]

\* The type Result<A, B>.
ResultOf(A, B) == {Ok(a) : a \in TypeVals(A)} \cup {Err(b) : b \in TypeVals(B)}

\* The tuple struct StrictResult(Result<A, B>): one field, the Result.
StrictResult(r) == [f0 |-> r]

\* The type StrictResult<A, B>.
StrictResultOf(A, B) == {StrictResult(r) : r \in ResultOf(A, B)}

Continue(v) == [cf |-> "Continue", v |-> v]

Break(r) == [cf |-> "Break", v |-> r]

\* What an expression of type `!` evaluates to: `match v {}` on a v: Infallible.
Unreachable == [never |-> "match v {}"]

IsPayload(x) == "ty" \in DOMAIN x

IsResult(x) == "variant" \in DOMAIN x

IsWrapper(x) == "f0" \in DOMAIN x

IsControlFlow(x) == "cf" \in DOMAIN x

\* ------------------------------------------------------------------ From

\* The From impls in scope: ABError from AError and from BError, and the
\* reflexive impl every type has.
HasFrom(B, B2) == B2 = B \/ (B2 = "ABError" /\ B \in {"AError", "BError"})

\* b.into() at target type B2.
into(b, B2) ==
  CASE b.ty = B2 -> b
    [] B2 = "ABError" /\ b.ty = "AError" -> [ty |-> "ABError", ctor |-> "A", id |-> b.id]
    [] B2 = "ABError" /\ b.ty = "BError" -> [ty |-> "ABError", ctor |-> "B", id |-> b.id]

\* ------------------------------------------------------------------ the crate

strict(r) == StrictResult(r)

\* Mutant of loose: every wrapper is read as a failure.
loose_as_err(w) == Err(w.f0.v)

loose(w) == w.f0

\* Mutant of from_residual_strict: the arms of the match are swapped.
from_residual_strict_swapped(r) ==
  IF loose(r).variant = "Err" THEN Unreachable ELSE strict(Err(loose(r).v))

\* Mutant of from_residual_strict: the payload goes through .into(), as in
\* the impl for a plain residual.
from_residual_strict_into(r) ==
  IF loose(r).variant = "Ok"
    THEN Unreachable
    ELSE strict(Err(into(loose(r).v, "ABError")))

\* FromResidual<StrictResult<Infallible, B>> for StrictResult<A, B>
from_residual_strict(r) ==
  IF loose(r).variant = "Ok" THEN Unreachable ELSE strict(Err(loose(r).v))

\* Mutant of from_residual_result: the payload goes through .into(), as in
\* the impl for a plain residual.
from_residual_result_into(r) ==
  IF loose(r).variant = "Ok" THEN Unreachable ELSE Err(into(loose(r).v, "ABError"))

\* FromResidual<StrictResult<Infallible, B>> for Result<A, B>
from_residual_result(r) ==
  IF loose(r).variant = "Ok" THEN Unreachable ELSE Err(loose(r).v)

\* Mutant of from_residual_loose: the .into() is left out.
from_residual_loose_no_into(r, B2) ==
  IF r.variant = "Ok" THEN Unreachable ELSE strict(Err(r.v))

\* FromResidual<Result<Infallible, B>> for StrictResult<A, B2>, B2: From<B>
from_residual_loose(r, B2) ==
  IF r.variant = "Ok" THEN Unreachable ELSE strict(Err(into(r.v, B2)))

\* Mutant of from_output: the output is wrapped as a failure.
from_output_as_err(r) == strict(Err(r))

from_output(r) == strict(Ok(r))

\* Mutant of branch: the success payload is dropped.
branch_drops_output(x) ==
  IF loose(x).variant = "Ok"
    THEN Continue(Unit)
    ELSE Break(strict(Err(loose(x).v)))

\* Mutant of branch: a failure continues too.
branch_never_breaks(x) == Continue(loose(x).v)

\* Mutant of branch: every wrapper breaks, with itself as the residual.
branch_always_breaks(x) == Break(x)

branch(x) ==
  IF loose(x).variant = "Ok"
    THEN Continue(loose(x).v)
    ELSE Break(strict(Err(loose(x).v)))

\* core's <Result<A, B> as Try>::branch, which a plain `?` calls.
result_branch(x) ==
  IF x.variant = "Ok" THEN Continue(x.v) ELSE Break(Err(x.v))

\* ------------------------------------------------------------------ trait resolution

\* The residual type of the operand of a `?`: <StrictResult<A, B> as
\* Try>::Residual for `.strict()?`, Result<Infallible, B> for a plain `?`.
ResidualOf(step) ==
  IF step.how = "strict"
    THEN <<"StrictResult", "Infallible", step.err>>
    ELSE <<"Result", "Infallible", step.err>>

\* Mutant of FromResidualImpl: the impls for a strict residual are written
\* with a B2: From<B> bound, like the impl for a plain residual.
FromResidualImpl_widening(res, tgtKind, B2) ==
  CASE res[1] = "StrictResult" /\ tgtKind = "StrictResult" /\ HasFrom(res[3], B2) -> "strict_to_strict"
    [] res[1] = "StrictResult" /\ tgtKind = "Result" /\ HasFrom(res[3], B2) -> "strict_to_result"
    [] res[1] = "Result" /\ tgtKind = "StrictResult" /\ HasFrom(res[3], B2) -> "result_to_strict"
    [] OTHER -> "none"

\* The crate's FromResidual impl that takes a residual res into a function
\* returning tgtKind<_, B2>, or "none".
FromResidualImpl(res, tgtKind, B2) ==
  CASE res[1] = "StrictResult" /\ tgtKind = "StrictResult" /\ B2 = res[3] -> "strict_to_strict"
    [] res[1] = "StrictResult" /\ tgtKind = "Result" /\ B2 = res[3] -> "strict_to_result"
    [] res[1] = "Result" /\ tgtKind = "StrictResult" /\ HasFrom(res[3], B2) -> "result_to_strict"
    [] OTHER -> "none"

\* The impl a step of the enclosing function resolves to.
ImplOf(step) == FromResidualImpl(ResidualOf(step), retKind, retErr)

\* from_residual of the impl selected for a step.
from_residual(step, r) ==
  CASE ImplOf(step) = "strict_to_strict" -> from_residual_strict(r)
    [] ImplOf(step) = "strict_to_result" -> from_residual_result(r)
    [] ImplOf(step) = "result_to_strict" -> from_residual_loose(r, retErr)

\* ------------------------------------------------------------------ the enclosing function

None == [none |-> TRUE]

\* One `?` of the body: helper().strict()? or helper()?, the helper returning
\* Result<A, err>.
Steps == [how : {"strict", "plain"}, err : ErrTypes]

Bodies == UNION {[1..n -> Steps] : n \in 1..MaxSteps}

\* A function returning Result<(), retErr> or StrictResult<(), retErr>.  A
\* plain `?` inside a function returning a plain Result is resolved by core
\* alone and is left out.
InitProgram ==
  /\ retKind \in {"Result", "StrictResult"}
  /\ retErr \in ErrTypes
  /\ steps \in Bodies
  /\ retKind = "Result" => \A k \in 1..Len(steps) : steps[k].how = "strict"
  /\ pc = "typecheck"
  /\ i = 1
  /\ cur = None
  /\ cf = None
  /\ val = None
  /\ ret = None
  /\ trace = <<>>
  /\ chain = <<>>

\* The compiler resolves every `?` of the body, or rejects the function.
Typecheck ==
  /\ pc = "typecheck"
  /\ pc' = IF \A k \in 1..Len(steps) : ImplOf(steps[k]) # "none"
             THEN "call" ELSE "rejected"
  /\ UNCHANGED <<retKind, retErr, steps, i, cur, cf, val, ret, trace, chain>>

\* The helper of step i returns, and `.strict()` is applied where written.
Call ==
  /\ pc = "call"
  /\ \E r \in ResultOf("A", steps[i].err) :
       /\ cur' = IF steps[i].how = "strict" THEN strict(r) ELSE r
       /\ trace' = Append(trace, r)
  /\ pc' = "branch"
  /\ UNCHANGED <<retKind, retErr, steps, i, cf, val, ret, chain>>

\* `?` calls Try::branch on its operand.
Branch ==
  /\ pc = "branch"
  /\ cf' = IF steps[i].how = "strict" THEN branch(cur) ELSE result_branch(cur)
  /\ pc' = "match"
  /\ UNCHANGED <<retKind, retErr, steps, i, cur, val, ret, trace, chain>>

\* ControlFlow::Continue(v): the `?` expression has value v and the body goes on.
Proceed ==
  /\ pc = "match"
  /\ cf.cf = "Continue"
  /\ val' = cf.v
  /\ IF i < Len(steps)
       THEN i' = i + 1 /\ pc' = "call"
       ELSE i' = i /\ pc' = "tail"
  /\ UNCHANGED <<retKind, retErr, steps, cur, cf, ret, trace, chain>>

\* ControlFlow::Break(r): return FromResidual::from_residual(r).
Return ==
  /\ pc = "match"
  /\ cf.cf = "Break"
  /\ ret' = from_residual(steps[i], cf.v)
  /\ pc' = "done"
  /\ UNCHANGED <<retKind, retErr, steps, i, cur, cf, val, trace, chain>>

\* The tail expression: Ok(()) or Ok(()).strict().
TailExpr ==
  /\ pc = "tail"
  /\ ret' = IF retKind = "StrictResult" THEN strict(Ok(Unit)) ELSE Ok(Unit)
  /\ pc' = "done"
  /\ UNCHANGED <<retKind, retErr, steps, i, cur, cf, val, trace, chain>>

ProgramNext == Typecheck \/ Call \/ Branch \/ Proceed \/ Return \/ TailExpr

\* ------------------------------------------------------------------ direct use of the API

\* Every Result<A, B> and Result<Infallible, B> over the types above.
AllResults == UNION {ResultOf(A, B) : A \in {"A", "Infallible"}, B \in ErrTypes}

AllWrappers == {StrictResult(r) : r \in AllResults}

\* The values of the type StrictResult<Infallible, B>, any B.
StrictResiduals == UNION {StrictResultOf("Infallible", B) : B \in ErrTypes}

Inputs == TypeVals("A") \cup AllResults

Entry(op, to, arg, out) == [op |-> op, to |-> to, arg |-> arg, val |-> out]

\* The last value computed.
Top == chain[Len(chain)].val

\* The value the next function is applied to: the value itself, or what a
\* match on a ControlFlow binds.
Operand == IF IsControlFlow(Top) THEN Top.v ELSE Top

InitChain ==
  /\ \E x \in Inputs : chain = <<Entry("input", "-", None, x)>>
  /\ pc = "idle"
  /\ retKind = "Result"
  /\ retErr = "AError"
  /\ steps = <<>>
  /\ i = 1
  /\ cur = None
  /\ cf = None
  /\ val = None
  /\ ret = None
  /\ trace = <<>>

CanApply == pc = "idle" /\ Len(chain) <= MaxChain

\* Strict is sealed: only a Result has .strict().
ApplyStrict ==
  /\ CanApply
  /\ Operand \in AllResults
  /\ chain' = Append(chain, Entry("strict", "-", Operand, strict(Operand)))
  /\ UNCHANGED progVars

ApplyLoose ==
  /\ CanApply
  /\ Operand \in AllWrappers
  /\ chain' = Append(chain, Entry("loose", "-", Operand, loose(Operand)))
  /\ UNCHANGED progVars

ApplyFromOutput ==
  /\ CanApply
  /\ Operand \in TypeVals("A")
  /\ chain' = Append(chain, Entry("from_output", "-", Operand, from_output(Operand)))
  /\ UNCHANGED progVars

ApplyBranch ==
  /\ CanApply
  /\ Operand \in AllWrappers
  /\ chain' = Append(chain, Entry("branch", "-", Operand, branch(Operand)))
  /\ UNCHANGED progVars

ApplyFromResidualStrict ==
  /\ CanApply
  /\ Operand \in StrictResiduals
  /\ chain' = Append(chain, Entry("from_residual_strict", "-", Operand,
                                  from_residual_strict(Operand)))
  /\ UNCHANGED progVars

ApplyFromResidualResult ==
  /\ CanApply
  /\ Operand \in StrictResiduals
  /\ chain' = Append(chain, Entry("from_residual_result", "-", Operand,
                                  from_residual_result(Operand)))
  /\ UNCHANGED progVars

ApplyFromResidualLoose ==
  /\ CanApply
  /\ \E B \in ErrTypes, B2 \in ErrTypes :
       /\ Operand \in ResultOf("Infallible", B)
       /\ HasFrom(B, B2)
       /\ chain' = Append(chain, Entry("from_residual_loose", B2, Operand,
                                       from_residual_loose(Operand, B2)))
  /\ UNCHANGED progVars

ChainNext ==
  \/ ApplyStrict
  \/ ApplyLoose
  \/ ApplyFromOutput
  \/ ApplyBranch
  \/ ApplyFromResidualStrict
  \/ ApplyFromResidualResult
  \/ ApplyFromResidualLoose

\* ------------------------------------------------------------------ specification

Init == InitProgram \/ InitChain

Next == ProgramNext \/ ChainNext

Spec == Init /\ [][Next]_vars

\* ------------------------------------------------------------------ properties

\* The positions of the chain that have a predecessor.
Applied == 2..Len(chain)

\* Entry k applies op to the value entry k-1 computed with prevOp.
Follows(k, prevOp, op) == chain[k - 1].op = prevOp /\ chain[k].op = op

\* The helper result the function is propagating, or has just propagated.
LastResult == trace[Len(trace)]

\* The function is past the call of step i, which was written `.strict()?`.
AtStrictStep == Len(trace) = i /\ steps[i].how = "strict"

\* The function is past the call of step i, which was written with a plain `?`.
AtPlainStep == Len(trace) = i /\ steps[i].how = "plain"

\* C1: loose is the inverse of strict.  loose applied to strict(r) gives r
\* back, variant and payload unchanged, for an Ok and for an Err; and strict
\* applied to loose(w) gives w back.
C1_LooseInvertsStrict ==
  \A k \in Applied :
    /\ Follows(k, "strict", "loose") =>
         /\ chain[k].val = chain[k - 1].arg
         /\ chain[k].val.variant = chain[k - 1].arg.variant
         /\ chain[k].val.v = chain[k - 1].arg.v
    /\ Follows(k, "loose", "strict") => chain[k].val = chain[k - 1].arg

\* strict, loose, strict were applied to an Err, and strict, loose to an Ok.
C1_Witness ==
  /\ Len(chain) = 4
  /\ chain[1].val.variant = "Err"
  /\ chain[2].op = "strict"
  /\ chain[3].op = "loose"
  /\ chain[4].op = "strict"

\* The Result a return value of the enclosing function holds.
Returned == IF retKind = "StrictResult" THEN ret.f0 ELSE ret

\* C2: propagation on strict(Err(b)) exits the enclosing function at once
\* with a failure payload equal to b.  branch gives Break of a residual
\* holding Err(b), the body does not go on, and the function returns
\* strict(Err(b)) when it returns a StrictResult and Err(b) when it returns a
\* plain Result.
C2_StrictErrExits ==
  (pc \in {"match", "done"} /\ AtStrictStep /\ LastResult.variant = "Err") =>
    /\ cf = Break(StrictResult(Err(LastResult.v)))
    /\ ~ENABLED Proceed
    /\ pc = "done" =>
         ret = IF retKind = "StrictResult" THEN StrictResult(LastResult) ELSE LastResult

\* The second `.strict()?` of a function returning a plain Result met an Err
\* and the function has returned.
C2_Witness ==
  /\ pc = "done"
  /\ retKind = "Result"
  /\ i = 2
  /\ AtStrictStep
  /\ LastResult.variant = "Err"

\* C3: propagation on strict(Ok(a)) yields a to the continuing expression
\* without exiting the function.  branch gives Continue(a), no return value is
\* produced, and the `?` expression has the value a when the body goes on.
C3_StrictOkContinues ==
  /\ (pc = "match" /\ AtStrictStep /\ LastResult.variant = "Ok") =>
       /\ cf = Continue(LastResult.v)
       /\ ret = None
       /\ ~ENABLED Return
  /\ (pc \in {"call", "tail"} /\ Len(trace) >= 1 /\ steps[Len(trace)].how = "strict") =>
       /\ val = LastResult.v
       /\ ret = None
  /\ \A k \in Applied :
       (Follows(k, "strict", "branch") /\ chain[k - 1].arg.variant = "Ok") =>
         chain[k].val = Continue(chain[k - 1].arg.v)

\* The first `.strict()?` met an Ok and the body is at its second call.
C3_Witness ==
  /\ pc = "call"
  /\ i = 2
  /\ steps[1].how = "strict"
  /\ val = trace[1].v

\* C4: no implicit conversion on the strict path.  A function whose body
\* holds a `.strict()?` on a helper with failure type B runs only if its own
\* failure type is exactly B, whether it returns a StrictResult or a plain
\* Result; otherwise it is rejected by the compiler.  The payload it returns
\* on that path has the helper's type and is the helper's payload.
C4_NoImplicitConversion ==
  /\ pc \notin {"idle", "typecheck", "rejected"} =>
       \A k \in 1..Len(steps) : steps[k].how = "strict" => steps[k].err = retErr
  /\ (pc = "done" /\ AtStrictStep /\ LastResult.variant = "Err") =>
       /\ Returned.v.ty = steps[i].err
       /\ Returned.v = LastResult.v

\* A function with failure type ABError whose only `?` is a `.strict()?` on
\* a helper with failure type AError is rejected, though ABError: From<AError>.
C4_Witness ==
  /\ pc = "rejected"
  /\ retErr = "ABError"
  /\ Len(steps) = 1
  /\ steps[1] = [how |-> "strict", err |-> "AError"]

\* C5: strict propagation short-circuits.  Only the last helper called can
\* have failed; when the function has returned after a failure, no later
\* helper was called and it returns a failure, with that helper's payload on
\* the strict path; and it returns its final success value only when every
\* helper of the body was called and succeeded.
C5_ShortCircuit ==
  pc # "idle" =>
    /\ \A j \in 1..(Len(trace) - 1) : trace[j].variant = "Ok"
    /\ Len(trace) <= Len(steps)
    /\ pc = "done" =>
         /\ Len(trace) = i
         /\ LastResult.variant = "Err" =>
              /\ Returned.variant = "Err"
              /\ steps[i].how = "strict" => Returned.v = LastResult.v
         /\ LastResult.variant = "Ok" =>
              /\ Len(trace) = Len(steps)
              /\ Returned = Ok(Unit)
         /\ Returned.variant = "Ok" =>
              \A j \in 1..Len(steps) : j <= Len(trace) /\ trace[j].variant = "Ok"

\* A body of two `?` returned at the first, a `.strict()?` on an Err.
C5_Witness ==
  /\ pc = "done"
  /\ Len(steps) = 2
  /\ Len(trace) = 1
  /\ steps[1].how = "strict"
  /\ trace[1].variant = "Err"
  /\ Returned.variant = "Err"

\* C6: a terminal success payload is wrapped directly.  from_output(a) is the
\* wrapper of Ok(a), and loose applied to it gives Ok(a).
C6_FromOutputWrapsOk ==
  \A k \in Applied :
    chain[k].op = "from_output" =>
      /\ chain[k].val = StrictResult(Ok(chain[k].arg))
      /\ (k < Len(chain) /\ chain[k + 1].op = "loose") =>
           chain[k + 1].val = Ok(chain[k].arg)

\* from_output, then loose, were applied to a payload.
C6_Witness ==
  /\ Len(chain) >= 3
  /\ IsPayload(chain[1].val)
  /\ chain[2].op = "from_output"
  /\ chain[3].op = "loose"

\* The values each function may return.
Codomain(e) ==
  CASE e.op = "strict" -> AllWrappers
    [] e.op = "loose" -> AllResults
    [] e.op = "from_output" -> StrictResultOf("A", "Infallible")
    [] e.op = "branch" ->
         {Continue(a) : a \in TypeVals("A")} \cup {Break(r) : r \in StrictResiduals}
    [] e.op = "from_residual_strict" -> AllWrappers
    [] e.op = "from_residual_result" -> AllResults
    [] e.op = "from_residual_loose" -> StrictResultOf("Infallible", e.to)

\* C7: every operation is total.  strict, loose, from_output, branch and the
\* three from_residual conversions return a value of their return type for
\* every input, Ok or Err, and none ends in the arm that has no value; the
\* enclosing function always has a ControlFlow to match on and a value to
\* return.
C7_Total ==
  /\ \A k \in Applied :
       /\ chain[k].val # Unreachable
       /\ chain[k].val \in Codomain(chain[k])
  /\ pc = "match" => IsControlFlow(cf) /\ cf.cf \in {"Continue", "Break"}
  /\ pc = "match" => ENABLED (Proceed \/ Return)
  /\ pc = "done" => ret # None /\ ret # Unreachable /\ IsResult(Returned)

\* Every function of the crate has been applied: strict, branch and a
\* from_residual to an Err on a chain.
C7_Witness ==
  /\ Len(chain) = 4
  /\ chain[1].val.variant = "Err"
  /\ chain[2].op = "strict"
  /\ chain[3].op = "branch"
  /\ chain[4].op = "from_residual_strict"

\* The Result a residual holds, a strict residual or a plain one.
ResidualResult(r) == IF IsWrapper(r) THEN r.f0 ELSE r

\* C8: the residual is failure-only.  branch(x) is Break exactly when x holds
\* an Err and Continue exactly when x holds an Ok, every residual it produces
\* is a StrictResult<Infallible, B> holding an Err, and no from_residual ever
\* takes its Ok arm.
C8_ResidualIsFailureOnly ==
  /\ \A k \in Applied :
       /\ chain[k].op = "branch" =>
            /\ chain[k].val.cf = "Break" <=> chain[k].arg.f0.variant = "Err"
            /\ chain[k].val.cf = "Continue" <=> chain[k].arg.f0.variant = "Ok"
            /\ chain[k].val.cf = "Break" =>
                 /\ chain[k].val.v \in StrictResiduals
                 /\ chain[k].val.v.f0.variant = "Err"
       /\ chain[k].op \in {"from_residual_strict", "from_residual_result",
                            "from_residual_loose"} =>
            /\ ResidualResult(chain[k].arg).variant = "Err"
            /\ chain[k].val # Unreachable
  /\ (pc \in {"match", "done"} /\ cf.cf = "Break") =>
       ResidualResult(cf.v).variant = "Err"
  /\ pc = "done" => ret # Unreachable

\* branch broke on a wrapper holding an Err and from_residual took the residual.
C8_Witness ==
  /\ Len(chain) = 4
  /\ chain[3].op = "branch"
  /\ chain[3].arg.f0.variant = "Err"
  /\ chain[3].val.cf = "Break"
  /\ chain[4].op = "from_residual_result"

\* C9: a plain `?` stays available in a function returning StrictResult<_, B2>.
\* On Err(b) of type B, B2: From<B>, the function returns
\* strict(Err(into(b))): the payload has type B2 and is built from b, and it
\* is b itself when B2 = B.
C9_PlainPathConverts ==
  /\ (pc = "done" /\ AtPlainStep /\ LastResult.variant = "Err") =>
       /\ retKind = "StrictResult"
       /\ ret = StrictResult(Err(into(LastResult.v, retErr)))
       /\ ret.f0.v.ty = retErr
       /\ ret.f0.v.id = LastResult.v.id
       /\ steps[i].err = retErr => ret = StrictResult(LastResult)
       /\ steps[i].err = "AError" /\ retErr = "ABError" => ret.f0.v.ctor = "A"
       /\ steps[i].err = "BError" /\ retErr = "ABError" => ret.f0.v.ctor = "B"
  /\ \A k \in Applied :
       chain[k].op = "from_residual_loose" =>
         chain[k].val = StrictResult(Err(into(chain[k].arg.v, chain[k].to)))

\* A function returning StrictResult<_, ABError> returned at a plain `?` on
\* an Err of type AError.
C9_Witness ==
  /\ pc = "done"
  /\ AtPlainStep
  /\ LastResult.variant = "Err"
  /\ steps[i].err = "AError"
  /\ retErr = "ABError"
  /\ ret.f0.v.ctor = "A"

\* C10: the round-trip laws of Try.  branch(from_output(a)) is Continue(a);
\* and rebuilding from the outcome of branch(x) gives x back: from_output(a)
\* after Continue(a), from_residual(r) after Break(r) into a StrictResult,
\* and loose(x) from from_residual(r) into a plain Result.
C10_TryLaws ==
  \A k \in Applied :
    /\ Follows(k, "from_output", "branch") =>
         chain[k].val = Continue(chain[k - 1].arg)
    /\ (Follows(k, "branch", "from_output") /\ chain[k - 1].val.cf = "Continue") =>
         chain[k].val = chain[k - 1].arg
    /\ (Follows(k, "branch", "from_residual_strict") /\ chain[k - 1].val.cf = "Break") =>
         chain[k].val = chain[k - 1].arg
    /\ (Follows(k, "branch", "from_residual_result") /\ chain[k - 1].val.cf = "Break") =>
         chain[k].val = chain[k - 1].arg.f0

\* from_output, branch and from_output again were applied to a payload.
C10_Witness ==
  /\ Len(chain) = 4
  /\ chain[2].op = "from_output"
  /\ chain[3].op = "branch"
  /\ chain[4].op = "from_output"
  /\ chain[4].val = chain[2].val
====
